---- MODULE Spec2Model ----
(***************************************************************************)
(* A model of the mancala board engine, the legal-action generator, the   *)
(* greedy policy and the SARSA trainer of src/src/main.rs.                 *)
(*                                                                         *)
(* The specifications share the variables:                                 *)
(*   Spec     the boards the program reaches: a GameState built by new(s)  *)
(*            and driven through any sequence of legal sub-moves and       *)
(*            swap_board calls, and the run of main(), which is sarsa_loop *)
(*            on an empty value table;                                     *)
(*   SpecAny  one call of a method on a board drawn from a bounded family  *)
(*            of boards (the methods as pure functions).                   *)
(***************************************************************************)
EXTENDS Integers, Sequences, FiniteSets

VARIABLES
    state,            \* the GameState the methods are called on
    new_state,        \* the board last returned by evaluate_to_new_state
    values,           \* the value table: a function from boards to values
    overflow_checks,  \* build profile: TRUE = arithmetic overflow panics
    call,             \* the last method call: name, argument, receiver before, outcome
    budget,           \* method calls the driver may still make
    start_seeds,      \* the argument new() was called with
    pc,               \* sarsa_loop: position in the loop
    episode,          \* sarsa_loop: index of the running episode
    counter,          \* sarsa_loop: counter
    action,           \* sarsa_loop: action
    q_prev,           \* sarsa_loop: q_prev
    q_next,           \* sarsa_loop: q_next
    score_diff,       \* sarsa_loop: score_diff
    reward            \* sarsa_loop: reward

board_vars   == <<state, new_state, values, overflow_checks, call, budget, start_seeds>>
trainer_vars == <<pc, episode, counter, action, q_prev, q_next, score_diff, reward>>
vars == <<state, new_state, values, overflow_checks, call, budget, start_seeds,
          pc, episode, counter, action, q_prev, q_next, score_diff, reward>>

----------------------------------------------------------------------------
(* Bounds of the model *)

MaxStartSeeds == 14    \* Spec builds new(s) for s in 1..MaxStartSeeds
MaxCalls      == 5     \* Spec: the driver makes at most this many calls
MaxSow        == 22    \* SpecAny: seeds in the source pit range over 0..MaxSow
MaxEpisodes   == 9     \* Spec: sarsa_loop runs at most this many episodes
MaxQueue      == 2     \* an Action passed to a method holds 1..MaxQueue sub-moves
MaxKeys       == 2     \* SpecAny: the value table given to pick_action has 0..MaxKeys keys

(* Program constants *)

NumHouses       == 12    \* houses: [u8; 12]
SideHouses      == 6     \* n/2 in swap_board, the 6 of is_ended and ActionIter
U8Modulus       == 256   \* width of u8
SowLimit        == 24    \* assert!(action+seeds+1 < 24)
TrainerSeeds    == 4     \* GameState::new(4) in sarsa_loop
Episodes        == 100   \* sarsa_loop(&mut value_fun, 0.1, 0.1, 100)
ValueScale      == 1000  \* f64 values are kept as integers in units of 1/1000
DefaultStateVal == 100   \* 0.1f64
LearningRateDen == 10    \* learning_rate = 0.1 = 1/LearningRateDen
DiscountFactorDen == 10  \* discount_factor = 0.1 = 1/DiscountFactorDen

----------------------------------------------------------------------------
(* A call returns a result [ok, state]: ok = FALSE when the call panicked. *)
(* The operators that model the statements of a method take the result so  *)
(* far and pass a panic on unchanged.                                      *)

Ok(st) == [ok |-> TRUE, state |-> st]

Panicked(st) == [ok |-> FALSE, state |-> st]

(* u8 arithmetic: an addition that overflows panics when the build has     *)
(* overflow checks (debug profile) and wraps otherwise (release profile).  *)
AddOk(x, y) == ~(overflow_checks /\ x + y >= U8Modulus)

AddVal(x, y) == (x + y) % U8Modulus

(* GameState::new *)
new(starting_seeds) ==
    [houses |-> [i \in 0..(NumHouses - 1) |-> starting_seeds],
     ezone1 |-> 0, ezone2 |-> 0, turn |-> 0, move_counter |-> 0]

(* one step of fold(0, Add::add) with a u8 accumulator *)
AddAcc(acc, x) ==
    IF ~acc.ok THEN acc ELSE [ok |-> AddOk(acc.val, x), val |-> AddVal(acc.val, x)]

(* houses[i..hi].iter().fold(acc, Add::add) *)
RECURSIVE FoldAdd(_, _, _, _)
FoldAdd(st, i, hi, acc) ==
    IF i >= hi THEN acc ELSE FoldAdd(st, i + 1, hi, AddAcc(acc, st.houses[i]))

(* a terminal check that looks at the other side only *)
EndedOfOther(p1_tot, p2_tot) ==
    IF ~p1_tot.ok \/ ~p2_tot.ok THEN [ok |-> FALSE, ret |-> FALSE]
    ELSE [ok |-> TRUE, ret |-> (p2_tot.val = 0)]

(* if p1_tot == 0 || p2_tot == 0 { return true; } return false; *)
EndedOf(p1_tot, p2_tot) ==
    IF ~p1_tot.ok \/ ~p2_tot.ok THEN [ok |-> FALSE, ret |-> FALSE]
    ELSE [ok |-> TRUE, ret |-> (p1_tot.val = 0 \/ p2_tot.val = 0)]

(* GameState::is_ended: ok = FALSE when a sum overflows and panics *)
is_ended(st) ==
    EndedOf(FoldAdd(st, 0, SideHouses, [ok |-> TRUE, val |-> 0]),
            FoldAdd(st, SideHouses, NumHouses, [ok |-> TRUE, val |-> 0]))

(* houses[idx] += 1: an index outside the array panics *)
IncHouse(r, idx) ==
    IF ~r.ok THEN r
    ELSE IF idx < 0 \/ idx >= NumHouses THEN Panicked(r.state)
    ELSE [ok |-> AddOk(r.state.houses[idx], 1),
          state |-> [r.state EXCEPT !.houses[idx] = AddVal(@, 1)]]

(* ezone1 += 1 *)
IncEzone1(r) ==
    IF ~r.ok THEN r
    ELSE [ok |-> AddOk(r.state.ezone1, 1),
          state |-> [r.state EXCEPT !.ezone1 = AddVal(@, 1)]]

(* ezone2 += 1 *)
IncEzone2(r) ==
    IF ~r.ok THEN r
    ELSE [ok |-> AddOk(r.state.ezone2, 1),
          state |-> [r.state EXCEPT !.ezone2 = AddVal(@, 1)]]

(* a deposit loop body with the two stores the other way round *)
DepositOtherStore(r, i) ==
    IF i < 6 THEN IncHouse(r, i)
    ELSE IF i = 6 THEN IncEzone1(r)
    ELSE IF i > 6 /\ i < 13 THEN IncHouse(r, i - 1)
    ELSE IF i = 13 THEN IncEzone2(r)
    ELSE IF i > 13 /\ i < 18 THEN IncHouse(r, i - 12 - 2)
    ELSE IF i = 18 THEN IncEzone1(r)
    ELSE IncHouse(r, i - 18 - 3)

(* the body of the deposit loop of evaluate_subaction for one i *)
Deposit(r, i) ==
    IF i < 6 THEN IncHouse(r, i)
    ELSE IF i = 6 THEN IncEzone2(r)
    ELSE IF i > 6 /\ i < 13 THEN IncHouse(r, i - 1)
    ELSE IF i = 13 THEN IncEzone1(r)
    ELSE IF i > 13 /\ i < 18 THEN IncHouse(r, i - 12 - 2)
    ELSE IF i = 18 THEN IncEzone2(r)
    ELSE IncHouse(r, i - 18 - 3)

(* for i in action+1..end_house+1 *)
RECURSIVE DepositLoop(_, _, _)
DepositLoop(r, i, end_house) ==
    IF i > end_house \/ ~r.ok THEN r
    ELSE DepositLoop(Deposit(r, i), i + 1, end_house)

(* a capture that forgets to clear the mirrored house *)
CaptureKeepsMirror(r, end_house) ==
    IF ~r.ok THEN r
    ELSE IF end_house < 6 /\ r.state.houses[end_house] = 1
    THEN [ok |-> /\ AddOk(1, r.state.houses[end_house + 6])
                 /\ AddOk(r.state.ezone2, AddVal(1, r.state.houses[end_house + 6])),
          state |-> [r.state EXCEPT
                        !.ezone2 = AddVal(@, AddVal(1, r.state.houses[end_house + 6])),
                        !.houses[end_house] = 0]]
    ELSE r

(* a capture that overwrites the store instead of adding to it *)
CaptureOverwrites(r, end_house) ==
    IF ~r.ok THEN r
    ELSE IF end_house < 6 /\ r.state.houses[end_house] = 1
    THEN [ok |-> AddOk(1, r.state.houses[end_house + 6]),
          state |-> [r.state EXCEPT
                        !.ezone2 = AddVal(1, r.state.houses[end_house + 6]),
                        !.houses[end_house] = 0,
                        !.houses[end_house + 6] = 0]]
    ELSE r

(* the capture rule of evaluate_subaction *)
Capture(r, end_house) ==
    IF ~r.ok THEN r
    ELSE IF end_house < 6 /\ r.state.houses[end_house] = 1
    THEN [ok |-> /\ AddOk(1, r.state.houses[end_house + 6])
                 /\ AddOk(r.state.ezone2, AddVal(1, r.state.houses[end_house + 6])),
          state |-> [r.state EXCEPT
                        !.ezone2 = AddVal(@, AddVal(1, r.state.houses[end_house + 6])),
                        !.houses[end_house] = 0,
                        !.houses[end_house + 6] = 0]]
    ELSE r

(* GameState::evaluate_subaction *)
evaluate_subaction(st, subaction) ==
    IF ~(subaction + st.houses[subaction] + 1 < SowLimit)
    THEN Panicked([st EXCEPT !.houses[subaction] = 0])
    ELSE Capture(DepositLoop(Ok([st EXCEPT !.houses[subaction] = 0]),
                             subaction + 1, subaction + st.houses[subaction]),
                 subaction + st.houses[subaction])

(* a swap loop that stops one house short *)
RECURSIVE SwapLoopShort(_, _, _)
SwapLoopShort(houses, i, n) ==
    IF i >= n \div 2 - 1 THEN houses
    ELSE SwapLoopShort([houses EXCEPT ![i] = houses[n \div 2 + i],
                                      ![n \div 2 + i] = houses[i]], i + 1, n)

(* the loop of swap_board: exchange houses[i] and houses[n/2+i] *)
RECURSIVE SwapLoop(_, _, _)
SwapLoop(houses, i, n) ==
    IF i >= n \div 2 THEN houses
    ELSE SwapLoop([houses EXCEPT ![i] = houses[n \div 2 + i],
                                 ![n \div 2 + i] = houses[i]], i + 1, n)

(* a swap that also hands the turn to the other player *)
SwapBoardFlipsTurn(st) ==
    [st EXCEPT !.houses = SwapLoop(st.houses, 0, NumHouses),
               !.ezone1 = st.ezone2,
               !.ezone2 = st.ezone1,
               !.turn = 1 - st.turn]

(* GameState::swap_board *)
swap_board(st) ==
    [st EXCEPT !.houses = SwapLoop(st.houses, 0, NumHouses),
               !.ezone1 = st.ezone2,
               !.ezone2 = st.ezone1]

----------------------------------------------------------------------------
(* packed_actions::Action: a queue of sub-moves, earliest pushed first *)

ActionNew == << >>

singleton(index) == <<index>>

push_action(q, index) == Append(q, index)

is_empty(q) == Len(q) = 0

(* pop_action: fails on an empty queue *)
pop_action(q) ==
    IF Len(q) = 0 THEN [ok |-> FALSE, subaction |-> 0, rest |-> q]
    ELSE [ok |-> TRUE, subaction |-> Head(q), rest |-> Tail(q)]

(* GameState::evaluate_action: loop { pop; evaluate_subaction;             *)
(* if action_list.is_empty() { break; } }                                  *)
RECURSIVE evaluate_action(_, _)
RECURSIVE AfterSubaction(_, _)
evaluate_action(st, action_list) ==
    IF ~pop_action(action_list).ok THEN Panicked(st)
    ELSE AfterSubaction(evaluate_subaction(st, pop_action(action_list).subaction),
                        pop_action(action_list).rest)

AfterSubaction(r, rest) ==
    IF ~r.ok \/ is_empty(rest) THEN r ELSE evaluate_action(r.state, rest)

(* GameState::evaluate_to_new_state: the receiver is cloned, the clone is  *)
(* mutated and returned                                                    *)
evaluate_to_new_state(st, action_list) == evaluate_action(st, action_list)

(* an iterator that also yields the empty houses *)
RECURSIVE ActionIterNextAll(_, _)
ActionIterNextAll(st, index) ==
    IF index >= SideHouses THEN [some |-> FALSE, item |-> ActionNew, next_subaction |-> index]
    ELSE IF st.houses[index] >= 0
         THEN [some |-> TRUE, item |-> push_action(ActionNew, index),
               next_subaction |-> index + 1]
         ELSE ActionIterNextAll(st, index + 1)

(* ActionIter::next: the first non-empty house at or after next_subaction *)
RECURSIVE ActionIterNext(_, _)
ActionIterNext(st, index) ==
    IF index >= SideHouses THEN [some |-> FALSE, item |-> ActionNew, next_subaction |-> index]
    ELSE IF st.houses[index] > 0
         THEN [some |-> TRUE, item |-> push_action(ActionNew, index),
               next_subaction |-> index + 1]
         ELSE ActionIterNext(st, index + 1)

(* the items of the iterator gen_actions returns, in the order it yields them *)
RECURSIVE Drain(_, _)
RECURSIVE DrainItem(_, _)
Drain(st, next_subaction) == DrainItem(st, ActionIterNext(st, next_subaction))

DrainItem(st, n) ==
    IF n.some THEN <<n.item>> \o Drain(st, n.next_subaction) ELSE << >>

gen_actions(st) == Drain(st, 0)

(* values.get(&key).unwrap_or(&default) *)
Lookup(tbl, key, default) == IF key \in DOMAIN tbl THEN tbl[key] ELSE default

(* one (action, value) pair is added to the choices vector of pick_action; *)
(* ok = FALSE when the look-ahead panicked                                 *)
PushChoice(c, a, possible_state, tbl) ==
    IF ~c.ok \/ ~possible_state.ok THEN [ok |-> FALSE, choices |-> c.choices]
    ELSE [ok |-> TRUE,
          choices |-> Append(c.choices,
                             [action |-> a,
                              value |-> Lookup(tbl, possible_state.state, DefaultStateVal)])]

(* the choices vector of pick_action: one pair per action of the generator *)
RECURSIVE Choices(_, _, _, _)
Choices(st, tbl, actions, c) ==
    IF actions = << >> \/ ~c.ok THEN c
    ELSE Choices(st, tbl, Tail(actions),
                 PushChoice(c, Head(actions), evaluate_to_new_state(st, Head(actions)), tbl))

(* the loop of pick_action: a choice replaces best only when strictly greater *)
RECURSIVE BestOf(_, _, _)
BestOf(choices, k, best) ==
    IF k > Len(choices) THEN best
    ELSE BestOf(choices, k + 1, IF choices[k].value > best.value THEN choices[k] ELSE best)

(* let mut best = &choices[0]; ...; (best.0, best.1) *)
PickBest(c) ==
    IF ~c.ok \/ Len(c.choices) = 0
    THEN [ok |-> FALSE, action |-> ActionNew, value |-> 0]
    ELSE [ok |-> TRUE,
          action |-> BestOf(c.choices, 1, c.choices[1]).action,
          value |-> BestOf(c.choices, 1, c.choices[1]).value]

(* GameState::pick_action: ok = FALSE when a look-ahead panics or choices  *)
(* is empty (choices[0] is out of bounds)                                  *)
pick_action(st, tbl) ==
    PickBest(Choices(st, tbl, gen_actions(st), [ok |-> TRUE, choices |-> << >>]))

----------------------------------------------------------------------------
(* The driver of Spec and SpecAny: calls of the methods of GameState.      *)
(* A call that panics ends the run (call.ok = FALSE); the receiver keeps   *)
(* its value from before the call, since nothing can observe it afterwards.*)

SubActions == 0..(SideHouses - 1)

ActionQueues == UNION {[1..k -> SubActions] : k \in 1..MaxQueue}

ValueLevels == {0, 10 * ValueScale}

EmptyTable == [k \in {} |-> 0]

CallRec(op, arg, ok) ==
    [op |-> op, arg |-> arg, before |-> state, ok |-> ok,
     ret_bool |-> FALSE, ret_actions |-> << >>, ret_action |-> << >>, ret_value |-> 0]

Driving == pc = "api" /\ call.ok /\ budget > 0

(* a call of a &mut self method that came back with result r *)
Mutated(op, arg, r) ==
    /\ state' = IF r.ok THEN r.state ELSE state
    /\ call' = CallRec(op, arg, r.ok)
    /\ budget' = budget - 1
    /\ UNCHANGED <<new_state, values, overflow_checks, start_seeds>>
    /\ UNCHANGED trainer_vars

(* a call of a &self method whose outcome is recorded in c *)
Queried(c) ==
    /\ call' = c
    /\ budget' = budget - 1
    /\ UNCHANGED <<state, new_state, values, overflow_checks, start_seeds>>
    /\ UNCHANGED trainer_vars

EvaluateSubaction(a) ==
    /\ Driving
    /\ state.houses[a] > 0
    /\ Mutated("evaluate_subaction", <<a>>, evaluate_subaction(state, a))

EvaluateAction(q) ==
    /\ Driving
    /\ state.houses[q[1]] > 0
    /\ Mutated("evaluate_action", q, evaluate_action(state, q))

(* evaluate_action called with Action::new(), a queue nothing was pushed to *)
EvaluateEmptyAction ==
    /\ Driving
    /\ Mutated("evaluate_action", ActionNew, evaluate_action(state, ActionNew))

(* a look-ahead that works on the receiver instead of a clone *)
ReturnedInPlace(q, r) ==
    /\ new_state' = IF r.ok THEN r.state ELSE new_state
    /\ state' = new_state'
    /\ call' = CallRec("evaluate_to_new_state", q, r.ok)
    /\ budget' = budget - 1
    /\ UNCHANGED <<values, overflow_checks, start_seeds>>
    /\ UNCHANGED trainer_vars

(* the returned board is kept in new_state *)
Returned(q, r) ==
    /\ new_state' = IF r.ok THEN r.state ELSE new_state
    /\ call' = CallRec("evaluate_to_new_state", q, r.ok)
    /\ budget' = budget - 1
    /\ UNCHANGED <<state, values, overflow_checks, start_seeds>>
    /\ UNCHANGED trainer_vars

EvaluateToNewState(q) ==
    /\ Driving
    /\ state.houses[q[1]] > 0
    /\ Returned(q, evaluate_to_new_state(state, q))

SwapBoard ==
    /\ Driving
    /\ Mutated("swap_board", << >>, Ok(swap_board(state)))

EndedCall(r) == [CallRec("is_ended", << >>, r.ok) EXCEPT !.ret_bool = r.ret]

IsEnded ==
    /\ Driving
    /\ Queried(EndedCall(is_ended(state)))

GenActions ==
    /\ Driving
    /\ Queried([CallRec("gen_actions", << >>, TRUE) EXCEPT !.ret_actions = gen_actions(state)])

PickCall(r) ==
    [CallRec("pick_action", << >>, r.ok) EXCEPT !.ret_action = r.action,
                                                !.ret_value = r.value]

PickAction ==
    /\ Driving
    /\ Queried(PickCall(pick_action(state, values)))

(* values.insert(good_state, v) *)
Inserted(q, good_state, v) ==
    /\ good_state.ok
    /\ values' = [k \in DOMAIN values \cup {good_state.state} |->
                     IF k = good_state.state THEN v ELSE values[k]]
    /\ call' = CallRec("insert", q, TRUE)
    /\ budget' = budget - 1
    /\ UNCHANGED <<state, new_state, overflow_checks, start_seeds>>
    /\ UNCHANGED trainer_vars

(* value_fun.insert(good_state, v) with good_state the board after an     *)
(* action, as the test pick_actions builds its table                       *)
Insert(q, v) ==
    /\ Driving
    /\ Len(q) = 1
    /\ state.houses[q[1]] > 0
    /\ Inserted(q, evaluate_to_new_state(state, q), v)

NextApi ==
    \/ \E a \in SubActions : EvaluateSubaction(a)
    \/ \E q \in ActionQueues : EvaluateAction(q)
    \/ EvaluateEmptyAction
    \/ \E q \in ActionQueues : EvaluateToNewState(q)
    \/ SwapBoard
    \/ IsEnded
    \/ GenActions
    \/ PickAction
    \/ \E q \in ActionQueues, v \in ValueLevels : Insert(q, v)

TrainerIdle ==
    /\ pc = "api" /\ episode = 0 /\ counter = 0 /\ action = ActionNew
    /\ q_prev = 0 /\ q_next = 0 /\ score_diff = 0 /\ reward = 0

InitCall ==
    call = [op |-> "new", arg |-> << >>, before |-> state, ok |-> TRUE,
            ret_bool |-> FALSE, ret_actions |-> << >>, ret_action |-> << >>,
            ret_value |-> 0]

(* a board built by new(s), for the driver of legal sub-moves and swaps *)
InitBoard ==
    /\ start_seeds \in 1..MaxStartSeeds
    /\ state = new(start_seeds)
    /\ new_state = state
    /\ values = EmptyTable
    /\ overflow_checks \in BOOLEAN
    /\ InitCall
    /\ budget = MaxCalls
    /\ TrainerIdle

----------------------------------------------------------------------------
(* SpecAny: one call of a method on a board of a bounded family.           *)

Stores == {<<0, 0>>, <<2, 5>>}

(* one source pit with n seeds, the mover's other pits at m, the other     *)
(* side's pits at q                                                        *)
SowBoards ==
    {[houses |-> [i \in 0..(NumHouses - 1) |->
                     IF i = a THEN n ELSE IF i < SideHouses THEN m ELSE q],
      ezone1 |-> e[1], ezone2 |-> e[2], turn |-> 0, move_counter |-> 0] :
        a \in SubActions, n \in 0..MaxSow, m \in {0, 1}, q \in {0, 2}, e \in Stores}

(* every pattern of empty and one-seed pits on the mover's side *)
PatternBoards ==
    {[houses |-> [i \in 0..(NumHouses - 1) |->
                     IF i < SideHouses THEN (IF i \in P THEN 1 ELSE 0) ELSE 1],
      ezone1 |-> 1, ezone2 |-> 0, turn |-> 0, move_counter |-> 0] :
        P \in SUBSET SubActions}

(* new(s) for every u8 s *)
UniformBoards == {new(s) : s \in 0..(U8Modulus - 1)}

(* the boards one legal singleton action away from b *)
Successors(b) ==
    {r.state : r \in {x \in {evaluate_to_new_state(b, singleton(a)) :
                                a \in {y \in SubActions : b.houses[y] > 0}} : x.ok}}

(* the value tables with at most MaxKeys keys, all among the successors of b *)
Tables(b) ==
    UNION {[K -> ValueLevels] :
             K \in {S \in SUBSET Successors(b) : Cardinality(S) <= MaxKeys}}

InitAny ==
    /\ overflow_checks \in BOOLEAN
    /\ \/ /\ state \in SowBoards \cup UniformBoards
          /\ values = EmptyTable
       \/ /\ state \in PatternBoards
          /\ values \in Tables(state)
    /\ start_seeds = state.houses[0]
    /\ new_state = state
    /\ InitCall
    /\ budget = 1
    /\ TrainerIdle

SpecAny == InitAny /\ [][NextApi]_vars

----------------------------------------------------------------------------
(* The trainer: main() runs sarsa_loop(&mut value_fun, 0.1, 0.1, 100) on   *)
(* an empty table.  pc names the place in the loop body:                   *)
(*   "episode"  the head of `for _ in 0..episodes`                         *)
(*   "pick"     lines 286-289, "apply" lines 291-295,                      *)
(*   "update"   lines 297-298, "check" lines 302-311,                      *)
(*   "panicked" the process has panicked.                                  *)
(* The f64 arithmetic is fixed-point in units of 1/ValueScale.             *)

InitTrainer ==
    /\ start_seeds = TrainerSeeds
    /\ state = new(start_seeds)
    /\ new_state = state
    /\ values = EmptyTable
    /\ overflow_checks \in BOOLEAN
    /\ InitCall
    /\ budget = 0
    /\ pc = "episode" /\ episode = 0 /\ counter = 0 /\ action = ActionNew
    /\ q_prev = 0 /\ q_next = 0 /\ score_diff = 0 /\ reward = 0

(* for _ in 0..episodes { let mut state = GameState::new(4); let mut counter = 0; *)
StartEpisode ==
    /\ pc = "episode"
    /\ episode < Episodes
    /\ episode < MaxEpisodes
    /\ state' = new(TrainerSeeds)
    /\ counter' = 0
    /\ pc' = "pick"
    /\ call' = [CallRec("new", << >>, TRUE) EXCEPT !.before = new(TrainerSeeds)]
    /\ UNCHANGED <<new_state, values, overflow_checks, budget, start_seeds>>
    /\ UNCHANGED <<episode, action, q_prev, q_next, score_diff, reward>>

(* pick_action came back with tup *)
Picked(tup) ==
    /\ call' = PickCall(tup)
    /\ IF tup.ok
       THEN /\ action' = tup.action
            /\ q_next' = tup.value
            /\ pc' = "apply"
       ELSE /\ pc' = "panicked"
            /\ UNCHANGED <<action, q_next>>

(* q_prev = *values.get(&state).unwrap_or(..); (action, q_next) = state.pick_action(values) *)
Pick ==
    /\ pc = "pick"
    /\ q_prev' = Lookup(values, state, DefaultStateVal)
    /\ Picked(pick_action(state, values))
    /\ UNCHANGED <<state, new_state, values, overflow_checks, budget, start_seeds>>
    /\ UNCHANGED <<episode, counter, score_diff, reward>>

(* evaluate_action came back with r *)
Applied(r) ==
    /\ call' = CallRec("evaluate_action", action, r.ok)
    /\ IF r.ok
       THEN /\ state' = r.state
            /\ reward' = (r.state.ezone2 - r.state.ezone1) - score_diff'
            /\ pc' = "update"
       ELSE /\ pc' = "panicked"
            /\ UNCHANGED <<state, reward>>

(* score_diff; state.evaluate_action(action); reward *)
Apply ==
    /\ pc = "apply"
    /\ score_diff' = state.ezone2 - state.ezone1
    /\ Applied(evaluate_action(state, action))
    /\ UNCHANGED <<new_state, values, overflow_checks, budget, start_seeds>>
    /\ UNCHANGED <<episode, counter, action, q_prev, q_next>>

(* learning_rate * (reward + discount_factor * q_next - q_prev) *)
Increment(r, qn, qp) ==
    (r * ValueScale + qn \div DiscountFactorDen - qp) \div LearningRateDen

(* an update that starts a fresh table with the one entry *)
UpdateFresh ==
    /\ pc = "update"
    /\ values' = [k \in {state} |->
                     Lookup(values, state, DefaultStateVal)
                     + Increment(reward, q_next, q_prev)]
    /\ pc' = "check"
    /\ call' = CallRec("entry", << >>, TRUE)
    /\ UNCHANGED <<state, new_state, overflow_checks, budget, start_seeds>>
    /\ UNCHANGED <<episode, counter, action, q_prev, q_next, score_diff, reward>>

(* let q_ref = values.entry(state).or_insert(default_state_val); *q_ref += .. *)
Update ==
    /\ pc = "update"
    /\ values' = [k \in DOMAIN values \cup {state} |->
                     IF k = state
                     THEN Lookup(values, state, DefaultStateVal)
                          + Increment(reward, q_next, q_prev)
                     ELSE values[k]]
    /\ pc' = "check"
    /\ call' = CallRec("entry", << >>, TRUE)
    /\ UNCHANGED <<state, new_state, overflow_checks, budget, start_seeds>>
    /\ UNCHANGED <<episode, counter, action, q_prev, q_next, score_diff, reward>>

(* is_ended came back with e *)
Checked(e) ==
    /\ call' = EndedCall(e)
    /\ IF ~e.ok
       THEN /\ pc' = "panicked"
            /\ UNCHANGED <<state, episode, counter>>
       ELSE IF e.ret
       THEN /\ pc' = "episode"
            /\ episode' = episode + 1
            /\ UNCHANGED <<state, counter>>
       ELSE /\ counter' = counter + 1
            /\ state' = swap_board(state)
            /\ pc' = "pick"
            /\ UNCHANGED episode

(* if state.is_ended() { break; } counter += 1; state.swap_board(); *)
Check ==
    /\ pc = "check"
    /\ Checked(is_ended(state))
    /\ UNCHANGED <<new_state, values, overflow_checks, budget, start_seeds>>
    /\ UNCHANGED <<action, q_prev, q_next, score_diff, reward>>

NextTrainer ==
    \/ StartEpisode
    \/ Pick
    \/ Apply
    \/ Update
    \/ Check

----------------------------------------------------------------------------
(* Spec: the boards the program reaches *)

Init == InitBoard \/ InitTrainer

Next ==
    \/ \E a \in SubActions : EvaluateSubaction(a)
    \/ SwapBoard
    \/ StartEpisode
    \/ Pick
    \/ Apply
    \/ Update
    \/ Check

Spec == Init /\ [][Next]_vars

----------------------------------------------------------------------------
(* Properties *)

RECURSIVE SumHouses(_, _, _)
SumHouses(st, lo, hi) == IF lo >= hi THEN 0 ELSE st.houses[lo] + SumHouses(st, lo + 1, hi)

(* all the seeds of a board: the 12 pits and both stores *)
Total(st) == SumHouses(st, 0, NumHouses) + st.ezone1 + st.ezone2

(* the last call was a completed evaluate_subaction *)
SubMoved == call.op = "evaluate_subaction" /\ call.ok

(* the board evaluate_subaction holds after its deposit loop, before the   *)
(* capture rule, when called on st with source pit a                       *)
SownBoard(st, a) ==
    DepositLoop(Ok([st EXCEPT !.houses[a] = 0]), a + 1, a + st.houses[a]).state

(* C1: seed conservation.  Every board reached from new(s) by legal        *)
(* sub-moves and swap_board calls (and every board of the trainer's run)   *)
(* holds 12*s seeds in its 12 pits and 2 stores, and each completed        *)
(* evaluate_subaction, evaluate_action and swap_board leaves the total of  *)
(* the board it was called on unchanged.                                   *)
C1_SeedConservation ==
    /\ Total(state) = NumHouses * start_seeds
    /\ (call.ok /\ call.op \in {"evaluate_subaction", "evaluate_action", "swap_board"})
          => Total(state) = Total(call.before)

(* C1 witness: a sub-move whose capture fired on a non-empty mirrored pit *)
C1_Witness ==
    /\ SubMoved
    /\ LET a == call.arg[1]
           end_house == a + call.before.houses[a]
       IN  /\ end_house < 6
           /\ call.before.houses[end_house + 6] > 0
           /\ state.ezone2 = call.before.ezone2 + 1 + call.before.houses[end_house + 6]

(* the slot-by-slot walk modulo 14: slots 0..5 are the mover's pits, 6 the *)
(* mover's store, 7..12 the opponent's pits, 13 the opponent's store       *)
RECURSIVE WalkFrom(_, _, _)
WalkFrom(st, slot, left) ==
    IF left = 0 THEN st
    ELSE LET s == slot % 14
             nxt == IF s < 6 THEN [st EXCEPT !.houses[s] = @ + 1]
                    ELSE IF s = 6 THEN [st EXCEPT !.ezone2 = @ + 1]
                    ELSE IF s < 13 THEN [st EXCEPT !.houses[s - 1] = @ + 1]
                    ELSE [st EXCEPT !.ezone1 = @ + 1]
         IN  WalkFrom(nxt, slot + 1, left - 1)

ReferenceWalk(st, a) == WalkFrom([st EXCEPT !.houses[a] = 0], a + 1, st.houses[a])

(* C2: sowing is a cyclic modulo-14 walk.  After every completed           *)
(* evaluate_subaction from pit a holding n seeds, the board before the     *)
(* capture check is the board with pit a emptied and one seed added to     *)
(* each of the slots a+1 .. a+n taken modulo 14.                           *)
C2_SowIsCyclicWalk ==
    SubMoved => SownBoard(call.before, call.arg[1]) = ReferenceWalk(call.before, call.arg[1])

(* C3: the capture rule.  A completed evaluate_subaction captures exactly  *)
(* when the last seed lands in one of the mover's pits p, directly or      *)
(* after wrapping round the board, and p then holds 1 seed: the mover's    *)
(* store gains 1 plus the mirrored pit p+6 and both pits end at 0;         *)
(* otherwise the board stays as sown.                                      *)
C3_CaptureRule ==
    SubMoved =>
        LET a == call.arg[1]
            sown == SownBoard(call.before, a)
            p == (a + call.before.houses[a]) % 14
        IN  IF p < 6 /\ sown.houses[p] = 1
            THEN state = [sown EXCEPT !.ezone2 = @ + 1 + sown.houses[p + 6],
                                      !.houses[p] = 0,
                                      !.houses[p + 6] = 0]
            ELSE state = sown

(* C4: termination.  Every episode of the trainer reaches a board with     *)
(* is_ended() true after finitely many moves.  Every run of the model is   *)
(* finite, so the claim is that a run of an episode stops only on such a   *)
(* board: whenever the loop has left an episode or the process has         *)
(* stopped, is_ended() is true of the board.                               *)
C4_Termination ==
    (pc = "panicked" \/ (pc = "episode" /\ episode > 0)) =>
        (is_ended(state).ok /\ is_ended(state).ret)

(* C5: no reachable move panics.  On every board the trainer reaches from  *)
(* new(4) by alternating moves and swaps, every legal sub-move passes the  *)
(* sow-length assertion, indexes only pits 0..11 and so completes.         *)
C5_NoMovePanics ==
    (pc = "pick" /\ start_seeds = TrainerSeeds) =>
        \A a \in SubActions :
            state.houses[a] > 0 => evaluate_subaction(state, a).ok

(* the mover's pits that hold seeds on board st *)
Legal(st) == {a \in SubActions : st.houses[a] > 0}

(* the table value of the board that the singleton action of pit a leads to *)
ValueAfter(st, a) ==
    Lookup(values, evaluate_to_new_state(st, singleton(a)).state, DefaultStateVal)

(* pit a is the greedy choice on st: no legal pit leads to a greater       *)
(* value, and none with a lower index to an equal one                      *)
Greedy(st, a) ==
    /\ a \in Legal(st)
    /\ \A b \in Legal(st) :
          /\ ValueAfter(st, b) <= ValueAfter(st, a)
          /\ ValueAfter(st, b) = ValueAfter(st, a) => a <= b

(* C6: greedy selection.  On every board with a legal action pick_action   *)
(* returns the legal action whose resulting board has the greatest table   *)
(* value (default 0.1 when absent), the lowest pit among equals, together  *)
(* with that value.                                                        *)
C6_GreedySelection ==
    (call.op = "pick_action" /\ Legal(call.before) # {}) =>
        /\ call.ok
        /\ Len(call.ret_action) = 1
        /\ Greedy(call.before, call.ret_action[1])
        /\ call.ret_value = ValueAfter(call.before, call.ret_action[1])

(* what pick_action does return is the greedy choice *)
GreedyWhenReturned ==
    (call.op = "pick_action" /\ call.ok) =>
        /\ Len(call.ret_action) = 1
        /\ Greedy(call.before, call.ret_action[1])
        /\ call.ret_value = ValueAfter(call.before, call.ret_action[1])

(* C7: the legal-action generator.  gen_actions yields one singleton       *)
(* action per non-empty mover pit, in strictly increasing pit order, and   *)
(* nothing else; for new(4) these are the pits 0,1,2,3,4,5.                *)
C7_Generator ==
    call.op = "gen_actions" =>
        /\ Len(call.ret_actions) = Cardinality(Legal(call.before))
        /\ \A k \in 1..Len(call.ret_actions) :
              /\ Len(call.ret_actions[k]) = 1
              /\ call.ret_actions[k][1] \in Legal(call.before)
              /\ k > 1 => call.ret_actions[k - 1][1] < call.ret_actions[k][1]
        /\ call.before = new(TrainerSeeds) =>
              call.ret_actions = <<<<0>>, <<1>>, <<2>>, <<3>>, <<4>>, <<5>>>>

(* C7 witness: a board with empty pits between the non-empty ones *)
C7_Witness ==
    /\ call.op = "gen_actions"
    /\ call.ret_actions = <<<<1>>, <<4>>>>

(* C8: swap symmetry.  swap_board moves pit i to pit i+6 and pit i+6 to    *)
(* pit i for i in 0..5 and exchanges the stores; a second swap_board gives *)
(* back the original board.                                                *)
C8_SwapSymmetry ==
    call.op = "swap_board" =>
        /\ \A i \in SubActions :
              /\ state.houses[i + SideHouses] = call.before.houses[i]
              /\ state.houses[i] = call.before.houses[i + SideHouses]
        /\ state.ezone1 = call.before.ezone2
        /\ state.ezone2 = call.before.ezone1
        /\ swap_board(state) = call.before

(* C8 witness: a swap of a board whose sides and stores differ *)
C8_Witness ==
    /\ call.op = "swap_board"
    /\ call.before.houses[5] # call.before.houses[11]
    /\ call.before.ezone1 # call.before.ezone2

(* C9: look-ahead does not commit.  evaluate_to_new_state leaves the       *)
(* receiver unchanged and returns the board evaluate_action produces on a  *)
(* copy of it; pick_action leaves its board unchanged.                     *)
C9_LookAheadFrame ==
    /\ call.op = "evaluate_to_new_state" =>
          /\ state = call.before
          /\ call.ok = evaluate_action(call.before, call.arg).ok
          /\ call.ok => new_state = evaluate_action(call.before, call.arg).state
    /\ call.op = "pick_action" => state = call.before

(* C9 witness: a look-ahead that returned a board other than the receiver *)
C9_Witness ==
    /\ call.op = "evaluate_to_new_state"
    /\ call.ok
    /\ Len(call.arg) = 2
    /\ new_state # state

(* C10: the terminal check.  is_ended() returns true exactly when pits     *)
(* 0..5 sum to zero or pits 6..11 sum to zero, whatever the stores hold,   *)
(* and leaves the board unchanged.                                         *)
C10_TerminalCheck ==
    call.op = "is_ended" =>
        /\ call.ok
        /\ call.ret_bool = (\/ SumHouses(call.before, 0, SideHouses) = 0
                            \/ SumHouses(call.before, SideHouses, NumHouses) = 0)
        /\ state = call.before

(* the store of the player who moves first in an episode, and of the other *)
(* player, on board st after c swaps                                       *)
FirstStore(st, c) == IF c % 2 = 0 THEN st.ezone2 ELSE st.ezone1

SecondStore(st, c) == IF c % 2 = 0 THEN st.ezone1 ELSE st.ezone2

(* one step of the program, seen from the stores *)
StoresStep ==
    /\ (call'.op \in {"evaluate_subaction", "evaluate_action"} /\ call'.ok) =>
          /\ state'.ezone1 >= state.ezone1
          /\ state'.ezone2 >= state.ezone2
    /\ (call'.op = "swap_board" \/ (pc = "check" /\ pc' = "pick")) =>
          /\ state'.ezone1 = state.ezone2
          /\ state'.ezone2 = state.ezone1
    /\ pc \in {"pick", "apply", "update", "check"} =>
          /\ FirstStore(state', counter') >= FirstStore(state, counter)
          /\ SecondStore(state', counter') >= SecondStore(state, counter)

(* C11: stores never lose seeds.  Every move leaves each store at least as *)
(* large as before, a swap only exchanges the two stores, and so within an *)
(* episode the store of each real player never decreases.                  *)
C11_StoresNeverLoseSeeds == [][StoresStep]_vars

(* C11 witness: a move that put a seed in both stores *)
C11_Witness ==
    /\ call.op = "evaluate_subaction"
    /\ call.ok
    /\ state.ezone1 > call.before.ezone1
    /\ state.ezone2 > call.before.ezone2

(* both sides of board st hold seeds *)
NonTerminal(st) ==
    /\ SumHouses(st, 0, SideHouses) > 0
    /\ SumHouses(st, SideHouses, NumHouses) > 0

(* C12: the policy is never invoked on a terminal board.  In every         *)
(* iteration of the trainer loop the board given to pick_action and then   *)
(* to evaluate_action has seeds on both sides, so the mover has a legal    *)
(* action; the board checked after a move ends the episode exactly when it *)
(* is terminal, and only non-terminal boards are swapped.                  *)
C12_PolicyOffTerminal ==
    /\ pc \in {"pick", "apply"} =>
          /\ NonTerminal(state)
          /\ Legal(state) # {}
    /\ (call.op = "pick_action" /\ pc # "api") =>
          /\ NonTerminal(call.before)
          /\ Legal(call.before) # {}
    /\ (pc = "episode" /\ episode > 0) => ~NonTerminal(state)
    /\ (call.op = "is_ended" /\ pc = "pick") => NonTerminal(call.before)

(* C12 witness: a later iteration of a later episode, on a swapped board   *)
(* whose mover has a single legal pit                                      *)
C12_Witness ==
    /\ pc = "apply"
    /\ counter > 0
    /\ episode > 0
    /\ Cardinality(Legal(state)) = 1

(* one step of the program, seen from the value table *)
TableStep ==
    /\ DOMAIN values \subseteq DOMAIN values'
    /\ pc # "update" => values' = values
    /\ pc = "update" =>
          /\ call.op = "evaluate_action"
          /\ state = evaluate_action(call.before, call.arg).state
          /\ state' = state
          /\ DOMAIN values' = DOMAIN values \cup {state}
          /\ \A k \in DOMAIN values : k # state => values'[k] = values[k]
          /\ values'[state] =
                (IF state \in DOMAIN values THEN values[state] ELSE DefaultStateVal)
                + Increment(reward, q_next, q_prev)

(* C13: value-table update footprint.  Each trainer step writes exactly    *)
(* one entry, keyed by the board after the chosen move and before the      *)
(* swap, starting from the default when the key is absent; every other     *)
(* entry keeps its value and no key is ever removed.                       *)
C13_UpdateFootprint == [][TableStep]_vars

(* C13 witness: an update in a later episode, into a table that already    *)
(* holds other keys                                                        *)
C13_Witness ==
    /\ call.op = "entry"
    /\ episode > 0
    /\ state \in DOMAIN values
    /\ values[state] # DefaultStateVal
    /\ Cardinality(DOMAIN values) > 20

(* the sub-moves of q applied one after the other, none when q is empty *)
RECURSIVE ApplyInOrder(_, _)
ApplyInOrder(r, q) ==
    IF ~r.ok \/ Len(q) = 0 THEN r
    ELSE ApplyInOrder(evaluate_subaction(r.state, Head(q)), Tail(q))

(* C14: evaluate_action respects the queue's emptiness precondition.  It   *)
(* pops and applies sub-moves only while the queue is non-empty: an empty  *)
(* action leaves the board unchanged with no pop, and a queue of k         *)
(* sub-moves has exactly those k applied in pop order.                     *)
C14_QueuePrecondition ==
    call.op = "evaluate_action" =>
        /\ call.ok = ApplyInOrder(Ok(call.before), call.arg).ok
        /\ call.ok => state = ApplyInOrder(Ok(call.before), call.arg).state

(* for the non-empty queues evaluate_action applies the sub-moves in order *)
InOrderWhenNonEmpty ==
    (call.op = "evaluate_action" /\ Len(call.arg) > 0) =>
        /\ call.ok = ApplyInOrder(Ok(call.before), call.arg).ok
        /\ call.ok => state = ApplyInOrder(Ok(call.before), call.arg).state

(* what the mover's store (ezone2) and the other store (ezone1) gained in  *)
(* the last call                                                           *)
MoverGain == state.ezone2 - call.before.ezone2

OpponentGain == state.ezone1 - call.before.ezone1

(* C15: the trainer's reward is never negative.  In every legal move that  *)
(* evaluate_subaction completes the opponent's store gains at most 1 seed, *)
(* and only when the mover's store gains at least 1, so the store          *)
(* difference (mover minus opponent) after the move minus the difference   *)
(* before it is at least 0; this difference is the trainer's reward.       *)
C15_RewardNonNegative ==
    /\ (call.op \in {"evaluate_subaction", "evaluate_action"} /\ call.ok) =>
          /\ MoverGain - OpponentGain >= 0
          /\ Len(call.arg) = 1 =>
                /\ OpponentGain \in {0, 1}
                /\ OpponentGain = 1 => MoverGain >= 1
    /\ pc = "update" => reward = MoverGain - OpponentGain
    /\ reward >= 0

(* C15 witness: a trainer move that put a seed in the opponent's store and *)
(* earned reward 0                                                         *)
C15_Witness ==
    /\ pc = "update"
    /\ OpponentGain = 1
    /\ reward = 0

(* the boards the program holds or looks ahead to in the current state *)
KnownBoards ==
    {state, new_state, call.before} \cup DOMAIN values
    \cup {evaluate_to_new_state(state, singleton(a)).state : a \in Legal(state)}

(* b and c agree on the 12 pits and the 2 stores *)
SamePitsAndStores(b, c) ==
    /\ b.houses = c.houses
    /\ b.ezone1 = c.ezone1
    /\ b.ezone2 = c.ezone2

(* C16: turn and move_counter are 0 in every board reached from new(s) by  *)
(* evaluate_subaction, evaluate_action, evaluate_to_new_state and          *)
(* swap_board, so two such boards are equal as value-table keys exactly    *)
(* when their 12 pits and 2 stores are equal.                              *)
C16_UnusedFieldsZero ==
    \A b \in KnownBoards :
        /\ b.turn = 0
        /\ b.move_counter = 0
        /\ (b = state) <=> SamePitsAndStores(b, state)
        /\ (b = call.before) <=> SamePitsAndStores(b, call.before)

(* C16 witness: a board reached by moves and then swapped *)
C16_Witness ==
    /\ call.op = "swap_board"
    /\ call.before # new(start_seeds)
    /\ call.before # swap_board(new(start_seeds))
    /\ state # call.before
    /\ state.turn = 0
    /\ state.move_counter = 0

====
